---- MODULE Spec2Model ----
(***************************************************************************)
(* Experience replay buffers of base/experience_replay.py:                 *)
(* ExperienceReplay (the circular transition store), its subclasses        *)
(* UniformExperienceReplay and PrioritizedExperienceReplay, and the sum    *)
(* and min segment trees the prioritized buffer keeps its priorities in.   *)
(*                                                                         *)
(* Floating-point priorities are modelled by integers and the quotients    *)
(* the sampler computes by exact fractions <<numerator, denominator>>.     *)
(* A transition is an opaque payload: the k-th add_transition call inserts *)
(* the transition k.                                                       *)
(***************************************************************************)
EXTENDS Integers, Sequences, FiniteSets

\* ------------------------------------------------------------------ bounds
MaxCap == 2        \* largest max_size a buffer is constructed with
MaxAdds == 4       \* add_transition calls in one run

\* ------------------------------------------------------------------ inputs
Alphas == {0, 1}                \* the exponents alpha a buffer is constructed with
Betas == {0, 1}                 \* the exponents beta
Priorities == {0, 1, 2}         \* the priorities handed to update_priorities
BatchSizes == {0, 1, 2}         \* batch_size, and the lengths of an update batch
Uniform01 == {<<0, 1>>, <<3, 4>>} \* the draws of np.random.uniform(0, 1), as fractions

Absent == "absent" \* a field the object does not have

VARIABLES
    kind,           \* the class constructed: "base", "uniform", "prioritized"
    max_size,       \* self.max_size
    transitions,    \* self._transitions, rows 0 .. Len-1 kept at 1 .. Len
    current_idx,    \* self._current_idx
    size,           \* self.size
    alpha,          \* self._alpha
    beta,           \* self._beta
    max_priority,   \* self._max_priority
    st_sum,         \* self._st_sum
    st_min,         \* self._st_min
    n_adds,         \* add_transition calls made so far
    op,             \* the last call: its name and arguments
    outcome,        \* how the last call ended: "ok" or the exception raised
    indices,        \* the slot indices the last sample call drew
    returned,       \* the rows the last sample call returned; the caller holds
                    \* both until its next sample or update_priorities call
    clone           \* the buffer the last call returned, when it was clone_buffer

vars == <<kind, max_size, transitions, current_idx, size, alpha, beta,
          max_priority, st_sum, st_min, n_adds, op, outcome, indices, returned,
          clone>>

\* the value of clone when the last call returned no buffer
NoClone == [kind |-> Absent]

store == <<max_size, transitions, current_idx, size>>
trees == <<st_sum, st_min>>

\* ------------------------------------------------------------- arithmetic
Min2(a, b) == IF a <= b THEN a ELSE b
Max2(a, b) == IF a >= b THEN a ELSE b

RECURSIVE Pow(_, _)
Pow(b, e) == IF e = 0 THEN 1 ELSE b * Pow(b, e - 1)

\* Fractions <<n, d>> with d > 0.
Frac(n, d) == <<n, d>>
FracMul(x, k) == <<x[1] * k, x[2]>>
FracDiv(x, y) == <<x[1] * y[2], x[2] * y[1]>>
\* x ** (-e) for a fraction x > 0 and an integer e >= 0
FracPowNeg(x, e) == <<Pow(x[2], e), Pow(x[1], e)>>
FracLt(x, y) == x[1] * y[2] < y[1] * x[2]

\* ----------------------------------------------------------- segment tree
\* The identity of min: +infinity, written as a value above every priority ** alpha.
Inf == 1 + Pow(1 + Cardinality(Priorities), 1 + Cardinality(Alphas))

Identity(operation) == IF operation = "sum" THEN 0 ELSE Inf
Combine(operation, a, b) == IF operation = "sum" THEN a + b ELSE Min2(a, b)

\* new(capacity, identity, combine): nodes 1 .. 2*capacity-1, leaf i at capacity + i
NewTree(capacity, operation) ==
    [capacity |-> capacity, operation |-> operation,
     value |-> [n \in 1..(2 * capacity - 1) |-> Identity(operation)]]

RECURSIVE Recombine(_, _, _)
Recombine(value, operation, node) ==
    IF node < 1 THEN value
    ELSE Recombine([value EXCEPT ![node] =
                        Combine(operation, value[2 * node], value[2 * node + 1])],
                   operation, node \div 2)

\* set(index, value): writes the leaf, then recombines every ancestor up to the root
SetItem(tree, idx, val) ==
    [tree EXCEPT !.value =
        Recombine([tree.value EXCEPT ![tree.capacity + idx] = val],
                  tree.operation, (tree.capacity + idx) \div 2)]

\* get(index)
GetItem(tree, idx) == tree.value[tree.capacity + idx]

RECURSIVE ReduceHelper(_, _, _, _, _, _)
ReduceHelper(tree, start, end, node, node_start, node_end) ==
    IF start = node_start /\ end = node_end THEN tree.value[node]
    ELSE LET mid == (node_start + node_end) \div 2 IN
         IF end <= mid THEN ReduceHelper(tree, start, end, 2 * node, node_start, mid)
         ELSE IF mid + 1 <= start
              THEN ReduceHelper(tree, start, end, 2 * node + 1, mid + 1, node_end)
              ELSE Combine(tree.operation,
                           ReduceHelper(tree, start, mid, 2 * node, node_start, mid),
                           ReduceHelper(tree, mid + 1, end, 2 * node + 1, mid + 1, node_end))

\* range_combine(lo, hi): the combine of the leaves lo .. hi, both included
Reduce(tree, lo, hi) ==
    IF hi < lo THEN Identity(tree.operation)
    ELSE ReduceHelper(tree, lo, hi, 1, 0, tree.capacity - 1)

\* sum() and min(): the whole-tree query
ReduceAll(tree) == Reduce(tree, 0, tree.capacity - 1)

\* find_prefix_index(target), target a fraction: descend from the root, left when
\* target < left child, else subtract the left child and go right
RECURSIVE FindPrefixsumIdx(_, _, _)
FindPrefixsumIdx(tree, prefixsum, node) ==
    IF node >= tree.capacity THEN node - tree.capacity
    ELSE LET left == tree.value[2 * node] IN
         IF FracLt(prefixsum, Frac(left, 1))
         THEN FindPrefixsumIdx(tree, prefixsum, 2 * node)
         ELSE FindPrefixsumIdx(tree, Frac(prefixsum[1] - left * prefixsum[2], prefixsum[2]),
                               2 * node + 1)

\* ----------------------------------------------------------- construction
\* st_capacity = 1; while st_capacity < max_size: st_capacity *= 2
RECURSIVE StCapacityFromLeq(_, _)
\* The loop with <= for <: one doubling too many when max_size is a power of two.
StCapacityFromLeq(c, m) == IF c <= m THEN StCapacityFromLeq(2 * c, m) ELSE c
RECURSIVE StCapacityFrom(_, _)
StCapacityFrom(c, m) == IF c < m THEN StCapacityFrom(2 * c, m) ELSE c
StCapacity(m) == StCapacityFrom(1, m)

\* ExperienceReplay.__init__ stores max_size as given: every max_size is accepted
ValidMaxSize(m) == TRUE

InitStore(m) ==
    /\ max_size = m
    /\ transitions = <<>>
    /\ current_idx = 0
    /\ size = 0

Init ==
    /\ kind \in {"base", "uniform", "prioritized"}
    /\ \E m \in 0..MaxCap : ValidMaxSize(m) /\ InitStore(m)
    /\ IF kind = "prioritized"
       THEN /\ alpha \in Alphas
            /\ beta \in Betas
            /\ max_priority = 1
            /\ st_sum = NewTree(StCapacity(max_size), "sum")
            /\ st_min = NewTree(StCapacity(max_size), "min")
       ELSE /\ alpha = Absent
            /\ beta = Absent
            /\ max_priority = Absent
            /\ st_sum = Absent
            /\ st_min = Absent
    /\ n_adds = 0
    /\ op = <<"__init__">>
    /\ outcome = "ok"
    /\ indices = <<>>
    /\ returned = <<>>
    /\ clone = NoClone

\* ---------------------------------------------------------- add_transition
\* size == 0: [row] * max_size, a two-dimensional array of max_size copies of the row
BlankBuffer(t, m) == [i \in 1..m |-> t]

\* A size that is never advanced.
NewSizeStuck(s, m) == s
NewSize(s, m) == Min2(s + 1, m)

\* A cursor that stays on the last slot instead of wrapping.
NextIdxNoWrap(i, m) == IF i + 1 = m THEN i ELSE i + 1
NextIdx(i, m) == (i + 1) % m

\* ExperienceReplay.add_transition; the row assignment raises IndexError on the
\* one-dimensional empty array that max_size = 0 leaves
StoreAdd(t) ==
    LET buf == IF size = 0 THEN BlankBuffer(t, max_size) ELSE transitions IN
    IF current_idx >= Len(buf)
    THEN /\ transitions' = buf
         /\ UNCHANGED <<max_size, current_idx, size>>
         /\ outcome' = "IndexError"
    ELSE /\ transitions' = [buf EXCEPT ![current_idx + 1] = t]
         /\ size' = NewSize(size, max_size)
         /\ current_idx' = NextIdx(current_idx, max_size)
         /\ UNCHANGED max_size
         /\ outcome' = "ok"

\* A seed that ignores max_priority: every new leaf starts at 1.
SeedPriorityOne(mp, a) == 1
SeedPriority(mp, a) == Pow(mp, a)

\* add_transition with idx read after the store insert, when the cursor has moved on.
AddTransitionIdxAfter ==
    /\ n_adds < MaxAdds
    /\ LET t == n_adds + 1
       IN  /\ StoreAdd(t)
           /\ op' = <<"add_transition", t>>
           /\ IF kind = "prioritized" /\ outcome' = "ok"
              THEN /\ st_min' = SetItem(st_min, current_idx', SeedPriority(max_priority, alpha))
                   /\ st_sum' = SetItem(st_sum, current_idx', SeedPriority(max_priority, alpha))
              ELSE UNCHANGED trees
    /\ n_adds' = n_adds + 1
    /\ clone' = NoClone
    /\ UNCHANGED <<kind, alpha, beta, max_priority, indices, returned>>

AddTransition ==
    /\ n_adds < MaxAdds
    /\ LET t == n_adds + 1
           idx == current_idx
       IN  /\ StoreAdd(t)
           /\ op' = <<"add_transition", t>>
           /\ IF kind = "prioritized" /\ outcome' = "ok"
              THEN /\ st_min' = SetItem(st_min, idx, SeedPriority(max_priority, alpha))
                   /\ st_sum' = SetItem(st_sum, idx, SeedPriority(max_priority, alpha))
              ELSE UNCHANGED trees
    /\ n_adds' = n_adds + 1
    /\ clone' = NoClone
    /\ UNCHANGED <<kind, alpha, beta, max_priority, indices, returned>>

\* ------------------------------------------------------------------ sample
\* batch_size > self.size: batch_size = self.size
ClampBatch(batch_size, s) == IF batch_size > s THEN s ELSE batch_size

Distinct(seq) == \A i, j \in DOMAIN seq : i # j => seq[i] # seq[j]

\* np.random.choice with replace=True: the b values may repeat.
ChoiceWithReplacement(n, b) == [1..b -> 0..(n - 1)]
\* np.random.choice(n, size=b, replace=False): any b pairwise distinct values of 0 .. n-1
Choice(n, b) == {c \in [1..b -> 0..(n - 1)] : Distinct(c)}

\* self._transitions[indices, :], defined when the array has rows and every index is one
Rows(idxs) == [i \in DOMAIN idxs |-> transitions[idxs[i] + 1]]

\* UniformExperienceReplay.sample; indexing the never-filled one-dimensional array
\* with [indices, :] raises IndexError
SampleUniform(batch_size) ==
    LET b == ClampBatch(batch_size, size) IN
    \E c \in Choice(size, b) :
        /\ indices' = c
        /\ IF transitions = <<>>
           THEN outcome' = "IndexError" /\ returned' = <<>>
           ELSE outcome' = "ok" /\ returned' = [i \in DOMAIN c |-> <<Rows(c)[i]>>]

\* The strata counted from 1 instead of 0.
MassFromOne(p_total, b, i, u) == Frac((u[1] + (i + 1) * u[2]) * p_total, u[2] * b)
\* mass = np.random.uniform(0, 1) * every_range_len + i * every_range_len, with
\* every_range_len = p_total / batch_size, the draw u a fraction and i counted from 0
Mass(p_total, b, i, u) == Frac((u[1] + i * u[2]) * p_total, u[2] * b)

\* PrioritizedExperienceReplay._sample_proportionally, given the draws us[1 .. b]
SampleProportionally(b, us) ==
    LET p_total == Reduce(st_sum, 0, size - 1) IN
    [i \in 1..b |-> FindPrefixsumIdx(st_sum, Mass(p_total, b, i - 1, us[i]), 1)]

\* The weight of one sampled index left unscaled by max_weight.
WeightUnscaled(idx) ==
    FracPowNeg(FracMul(Frac(GetItem(st_sum, idx), ReduceAll(st_sum)), size), beta)
\* weight / max_weight for one sampled index
Weight(idx) ==
    LET p_min == Frac(ReduceAll(st_min), ReduceAll(st_sum))
        max_weight == FracPowNeg(FracMul(p_min, size), beta)
        p_sample == Frac(GetItem(st_sum, idx), ReduceAll(st_sum))
        weight == FracPowNeg(FracMul(p_sample, size), beta)
    IN  FracDiv(weight, max_weight)

\* PrioritizedExperienceReplay.sample. With the clamped batch_size 0 the quotient
\* p_total / batch_size raises ZeroDivisionError when the tree holds Python
\* numbers; when it holds numpy numbers the quotient is nan and the empty index
\* array, of float type, raises IndexError in self._transitions[indices, :].
SamplePrioritized(batch_size) ==
    LET b == ClampBatch(batch_size, size) IN
    IF b = 0
    THEN /\ outcome' \in {"ZeroDivisionError", "IndexError"}
         /\ indices' = <<>>
         /\ returned' = <<>>
    ELSE \E us \in [1..b -> Uniform01] :
            \E idxs \in {SampleProportionally(b, us)} :
            /\ indices' = idxs
            /\ IF \E i \in 1..b : idxs[i] >= Len(transitions)
               THEN outcome' = "IndexError" /\ returned' = <<>>
               ELSE IF \E i \in 1..b : GetItem(st_sum, idxs[i]) = 0 /\ beta > 0
               THEN outcome' = "ZeroDivisionError" /\ returned' = <<>>
               ELSE /\ outcome' = "ok"
                    /\ returned' = [i \in 1..b |->
                                       <<Rows(idxs)[i], Weight(idxs[i]), idxs[i]>>]

\* ExperienceReplay.sample
SampleBase(batch_size) ==
    outcome' = "NotImplementedError" /\ indices' = <<>> /\ returned' = <<>>

Sample ==
    \E batch_size \in BatchSizes :
        /\ op' = <<"sample", batch_size>>
        /\ CASE kind = "uniform" -> SampleUniform(batch_size)
             [] kind = "prioritized" -> SamplePrioritized(batch_size)
             [] OTHER -> SampleBase(batch_size)
        /\ clone' = NoClone
        /\ UNCHANGED <<kind, store, alpha, beta, max_priority, trees, n_adds>>

\* -------------------------------------------------------- update_priorities
\* zip(indices, priorities)
Zip(a, b) == [i \in 1..Min2(Len(a), Len(b)) |-> <<a[i], b[i]>>]

\* max_priority overwritten by the last priority instead of the running maximum.
NewMaxPriorityLast(mp, priority) == priority
NewMaxPriority(mp, priority) == Max2(mp, priority)

\* A leaf written with the raw priority, alpha forgotten.
LeafValueRaw(priority, a) == priority
\* priority ** self._alpha
LeafValue(priority, a) == Pow(priority, a)

\* The two assertions of update_priorities, as the outcome of the call they abort
InvalidPriority == "AssertionError: priority > 0"
IndexOutOfRange == "AssertionError: 0 <= idx < self.size"

\* The loop of update_priorities from pair k on; st holds the fields it writes.
RECURSIVE UpdateFrom(_, _, _)
UpdateFrom(pairs, k, st) ==
    IF k > Len(pairs) THEN st
    ELSE LET idx == pairs[k][1]
             priority == pairs[k][2]
         IN  IF ~(priority > 0)
             THEN [st EXCEPT !.outcome = InvalidPriority]
             ELSE IF ~(0 <= idx /\ idx < size)
             THEN [st EXCEPT !.outcome = IndexOutOfRange]
             ELSE UpdateFrom(pairs, k + 1,
                     [st EXCEPT !.sum = SetItem(st.sum, idx, LeafValue(priority, alpha)),
                                !.min = SetItem(st.min, idx, LeafValue(priority, alpha)),
                                !.mp = NewMaxPriority(st.mp, priority)])

UpdatePriorities ==
    /\ kind = "prioritized"
    /\ \E n \in BatchSizes : \E idxs \in [1..n -> 0..max_size], priorities \in [1..n -> Priorities] :
        /\ \E end \in {UpdateFrom(Zip(idxs, priorities), 1,
                        [sum |-> st_sum, min |-> st_min, mp |-> max_priority,
                         outcome |-> "ok"])} :
               /\ st_sum' = end.sum
               /\ st_min' = end.min
               /\ max_priority' = end.mp
               /\ outcome' = end.outcome
        /\ op' = <<"update_priorities", idxs, priorities>>
    /\ indices' = <<>> /\ returned' = <<>>
    /\ clone' = NoClone
    /\ UNCHANGED <<kind, store, alpha, beta, n_adds>>

\* --------------------------------------------------------------- update_beta
UpdateBeta ==
    /\ kind = "prioritized"
    /\ \E b \in Betas :
        /\ beta' = b
        /\ op' = <<"update_beta", b>>
    /\ outcome' = "ok"
    /\ clone' = NoClone
    /\ UNCHANGED <<kind, store, alpha, max_priority, trees, n_adds, indices, returned>>

\* -------------------------------------------------------------- clone_buffer
\* UniformExperienceReplay(max_size=maxsize)
NewUniform(maxsize) ==
    [kind |-> "uniform", max_size |-> maxsize, transitions |-> <<>>,
     current_idx |-> 0, size |-> 0, outcome |-> "ok"]

\* buffer.add_transition(t) on the buffer under construction
AddTo(buffer, t) ==
    LET buf == IF buffer.size = 0 THEN BlankBuffer(t, buffer.max_size)
               ELSE buffer.transitions IN
    IF buffer.current_idx >= Len(buf)
    THEN [buffer EXCEPT !.transitions = buf, !.outcome = "IndexError"]
    ELSE [buffer EXCEPT !.transitions = [buf EXCEPT ![buffer.current_idx + 1] = t],
                        !.size = NewSize(buffer.size, buffer.max_size),
                        !.current_idx = NextIdx(buffer.current_idx, buffer.max_size)]

\* for t in old_transitions: buffer.add_transition(t), from row k on; an exception
\* ends the loop
RECURSIVE CloneFrom(_, _, _)
CloneFrom(old_transitions, k, buffer) ==
    IF k > Len(old_transitions) \/ buffer.outcome # "ok" THEN buffer
    ELSE CloneFrom(old_transitions, k + 1, AddTo(buffer, old_transitions[k]))

\* ExperienceReplay.clone_buffer(new_buffer, maxsize) with this buffer as new_buffer:
\* every row of the deep copy of _transitions is added, the populated ones and the
\* rest alike
CloneBuffer ==
    /\ \E maxsize \in 0..MaxCap :
        /\ \E buffer \in {CloneFrom(transitions, 1, NewUniform(maxsize))} :
               /\ outcome' = buffer.outcome
               /\ clone' = IF buffer.outcome = "ok"
                           THEN [kind |-> buffer.kind, max_size |-> buffer.max_size,
                                 transitions |-> buffer.transitions,
                                 current_idx |-> buffer.current_idx,
                                 size |-> buffer.size]
                           ELSE NoClone
        /\ op' = <<"clone_buffer", maxsize>>
    /\ UNCHANGED <<kind, store, alpha, beta, max_priority, trees, n_adds, indices,
                   returned>>

Next ==
    \/ AddTransition
    \/ Sample
    \/ UpdatePriorities
    \/ UpdateBeta
    \/ CloneBuffer

Spec == Init /\ [][Next]_vars

\* ================================================================== claims
IsCall(name) == op[1] = name
Leaves == 0..(st_sum.capacity - 1)

\* C1: with capacity C = max_size >= 1, after n >= C add_transition calls size is C
\* and the slots hold exactly the last C inserted transitions, the slot at the
\* write cursor holding the oldest of them and the following slots (wrapping) the
\* later ones in insertion order.
C1_FifoEviction ==
    (max_size >= 1 /\ n_adds >= max_size) =>
        /\ size = max_size
        /\ Len(transitions) = max_size
        /\ \A k \in 0..(max_size - 1) :
              transitions[((current_idx + k) % max_size) + 1] = n_adds - max_size + k + 1

\* A buffer of capacity 2 that has wrapped and evicted: the cursor is mid-array.
C1_Witness ==
    /\ max_size = 2
    /\ n_adds = 3
    /\ current_idx = 1
    /\ transitions = <<3, 2>>

\* C3: on a uniform buffer with size >= 1, sample(batch_size) returns exactly
\* min(batch_size, size) transitions, read from pairwise distinct slot indices that
\* all lie in [0, size).
C3_UniformSampleDistinct ==
    (kind = "uniform" /\ IsCall("sample") /\ size >= 1) =>
        /\ outcome = "ok"
        /\ Len(returned) = Min2(op[2], size)
        /\ Len(indices) = Len(returned)
        /\ \A i \in DOMAIN indices : 0 <= indices[i] /\ indices[i] < size
        /\ \A i, j \in DOMAIN indices : i # j => indices[i] # indices[j]
        /\ \A i \in DOMAIN indices : returned[i] = <<transitions[indices[i] + 1]>>

\* A batch of 2 asked of a buffer that holds 1 of its 2 slots: one row comes back.
C3_Witness ==
    /\ kind = "uniform"
    /\ op = <<"sample", 2>>
    /\ max_size = 2
    /\ size = 1
    /\ Len(returned) = 1

\* C8: 0 <= size <= max_size, the write cursor is (number of add_transition calls)
\* mod max_size, size is min(number of calls, max_size), and every add_transition
\* call succeeds.
C8_StoreInvariant ==
    /\ 0 <= size /\ size <= max_size
    /\ size = Min2(n_adds, max_size)
    /\ max_size >= 1 => current_idx = n_adds % max_size
    /\ IsCall("add_transition") => outcome = "ok"

\* C10: a buffer is never constructed with max_size < 1, so no add_transition
\* fails for want of capacity.
C10_InvalidCapacityRejected ==
    /\ max_size >= 1
    /\ ~(IsCall("add_transition") /\ outcome # "ok")

\* C2: an update_priorities call that fails leaves every leaf of both trees and
\* max_priority as they were before the call.
C2_FailedUpdateChangesNothing ==
    [][(op'[1] = "update_priorities" /\ outcome' # "ok") =>
            UNCHANGED <<st_sum, st_min, max_priority>>]_vars

\* C4: every importance weight a prioritized sample returns lies in (0, 1], the
\* sum-tree leaf of every sampled index is at least the min tree's minimum, and
\* with beta = 0 every weight is 1; a sample of at least one row from a buffer
\* that holds at least one transition does return.
C4_WeightsInUnitInterval ==
    (kind = "prioritized" /\ IsCall("sample")) =>
        /\ (size >= 1 /\ op[2] >= 1) => outcome = "ok"
        /\ outcome = "ok" =>
              \A i \in DOMAIN returned :
                 LET w == returned[i][2]
                     idx == returned[i][3]
                 IN  /\ w[2] > 0
                     /\ 0 < w[1] /\ w[1] <= w[2]
                     /\ GetItem(st_sum, idx) >= ReduceAll(st_min)
                     /\ beta = 0 => w[1] = w[2]

\* A sample that returned a weight strictly below 1.
C4_Witness ==
    /\ kind = "prioritized"
    /\ IsCall("sample")
    /\ outcome = "ok"
    /\ beta = 1
    /\ \E i \in DOMAIN returned : returned[i][2][1] < returned[i][2][2]

\* C5: an add_transition of the prioritized buffer that returns has written the
\* transition into the slot at the pre-call write cursor and set the leaf of that
\* index, in the sum tree and in the min tree, to max_priority ** alpha; every
\* other leaf of both trees, and max_priority, are as before.
C5_AddSeedsOneLeaf ==
    [][(kind = "prioritized" /\ op'[1] = "add_transition" /\ outcome' = "ok") =>
            /\ transitions'[current_idx + 1] = op'[2]
            /\ GetItem(st_sum', current_idx) = Pow(max_priority, alpha)
            /\ GetItem(st_min', current_idx) = Pow(max_priority, alpha)
            /\ \A j \in Leaves \ {current_idx} :
                  /\ GetItem(st_sum', j) = GetItem(st_sum, j)
                  /\ GetItem(st_min', j) = GetItem(st_min, j)
            /\ max_priority' = max_priority]_vars

\* An insert seeded at max_priority = 2 beside a leaf that still holds 1.
C5_Witness ==
    /\ kind = "prioritized"
    /\ op = <<"add_transition", 2>>
    /\ outcome = "ok"
    /\ max_size = 2
    /\ alpha = 1
    /\ max_priority = 2
    /\ GetItem(st_sum, 1) = 2 /\ GetItem(st_min, 1) = 2
    /\ GetItem(st_sum, 0) = 1 /\ GetItem(st_min, 0) = 1

\* The priority of the last pair of the batch that names index i.
LastPriorityFor(pairs, i) ==
    LET k == CHOOSE k \in DOMAIN pairs :
                 /\ pairs[k][1] = i
                 /\ \A l \in DOMAIN pairs : pairs[l][1] = i => l <= k
    IN  pairs[k][2]

RECURSIVE MaxOver(_, _, _)
MaxOver(pairs, k, m) ==
    IF k > Len(pairs) THEN m ELSE MaxOver(pairs, k + 1, Max2(m, pairs[k][2]))

PairValid(pair) == pair[2] > 0 /\ 0 <= pair[1] /\ pair[1] < size

\* C6: when every pair of an update_priorities call has priority > 0 and
\* 0 <= idx < size, the call returns, the leaf of every named index is, in both
\* trees, priority ** alpha of the last pair naming it, max_priority is the
\* maximum of its old value and all given priorities, and no other leaf, nor the
\* transitions, size or write cursor, is changed; otherwise the call fails on its
\* first bad pair, as InvalidPriority when that pair's priority is <= 0 and as
\* IndexOutOfRange when its priority is > 0 and its index is outside [0, size).
C6_UpdateWritesLeaves ==
    [][op'[1] = "update_priorities" =>
        \A pairs \in {Zip(op'[2], op'[3])} :
        LET named == {pairs[k][1] : k \in DOMAIN pairs}
        IN  IF \A k \in DOMAIN pairs : PairValid(pairs[k])
            THEN /\ outcome' = "ok"
                 /\ \A i \in Leaves :
                       IF i \in named
                       THEN /\ GetItem(st_sum', i) = Pow(LastPriorityFor(pairs, i), alpha)
                            /\ GetItem(st_min', i) = Pow(LastPriorityFor(pairs, i), alpha)
                       ELSE /\ GetItem(st_sum', i) = GetItem(st_sum, i)
                            /\ GetItem(st_min', i) = GetItem(st_min, i)
                 /\ max_priority' = MaxOver(pairs, 1, max_priority)
                 /\ UNCHANGED <<transitions, size, current_idx, max_size>>
            ELSE LET bad == CHOOSE k \in DOMAIN pairs :
                               /\ ~PairValid(pairs[k])
                               /\ \A l \in 1..(k - 1) : PairValid(pairs[l])
                 IN  outcome' = IF pairs[bad][2] <= 0 THEN InvalidPriority
                                ELSE IndexOutOfRange]_vars

\* An update that names index 0 twice, with priorities 2 then 1: the leaf holds
\* the last one and max_priority the larger one.
C6_Witness ==
    /\ kind = "prioritized"
    /\ op = <<"update_priorities", <<0, 0>>, <<2, 1>>>>
    /\ outcome = "ok"
    /\ alpha = 1
    /\ size = 2
    /\ GetItem(st_sum, 0) = 1
    /\ GetItem(st_sum, 1) = 1
    /\ max_priority = 2

\* C7: max_priority of a prioritized buffer is 1 after construction and no call
\* ever lowers it.
C7_MaxPriorityMonotone ==
    /\ kind = "prioritized" => max_priority = 1
    /\ [][kind = "prioritized" => max_priority' >= max_priority]_vars

\* Capacity 1: the transition whose update raised max_priority to 2 has been
\* overwritten by the second insert, and max_priority is still 2.
C7_Witness ==
    /\ kind = "prioritized"
    /\ max_size = 1
    /\ op = <<"add_transition", 2>>
    /\ transitions = <<2>>
    /\ max_priority = 2

\* The error the specification names for sampling from an empty buffer
EmptyBuffer == "EmptyBuffer"

\* C9: sample(batch_size) with batch_size > 0 on a uniform or prioritized buffer
\* that holds no transition ends in EmptyBuffer.
C9_EmptySampleIsEmptyBuffer ==
    (kind \in {"uniform", "prioritized"} /\ IsCall("sample") /\ op[2] > 0 /\ size = 0) =>
        outcome = EmptyBuffer

\* The combine of the leaves i .. capacity-1, taken one leaf at a time.
RECURSIVE CombineLeavesFrom(_, _)
CombineLeavesFrom(tree, i) ==
    IF i >= tree.capacity THEN Identity(tree.operation)
    ELSE Combine(tree.operation, GetItem(tree, i), CombineLeavesFrom(tree, i + 1))

IsPowerOfTwo(n) == \E e \in 0..n : Pow(2, e) = n

NodesCombineChildren(tree) ==
    \A node \in 1..(tree.capacity - 1) :
        tree.value[node] = Combine(tree.operation, tree.value[2 * node], tree.value[2 * node + 1])

\* C11: the capacity of both trees is the smallest power of two >= max_size, and
\* after any sequence of leaf writes by add_transition and update_priorities every
\* internal node of the sum tree is the sum, and of the min tree the min, of its two
\* children, and the whole-tree query is the combine of all leaves.
C11_TreeNodesCombineChildren ==
    kind = "prioritized" =>
        /\ st_sum.capacity = st_min.capacity
        /\ IsPowerOfTwo(st_sum.capacity)
        /\ st_sum.capacity >= max_size
        /\ st_sum.capacity > 1 => st_sum.capacity \div 2 < max_size
        /\ NodesCombineChildren(st_sum)
        /\ NodesCombineChildren(st_min)
        /\ ReduceAll(st_sum) = CombineLeavesFrom(st_sum, 0)
        /\ ReduceAll(st_min) = CombineLeavesFrom(st_min, 0)

\* Two leaves with different values under one root: the root of the sum tree is
\* their sum 3 and the root of the min tree their min 1.
C11_Witness ==
    /\ kind = "prioritized"
    /\ st_sum.capacity = 2
    /\ GetItem(st_sum, 0) = 2 /\ GetItem(st_sum, 1) = 1
    /\ st_sum.value[1] = 3
    /\ st_min.value[1] = 1

\* C12: in a prioritized buffer with size >= 1 the total mass sum(0, size-1) is > 0
\* and is the full sum of the sum tree; for every batch size sample can use and
\* every draw, the stratum mass satisfies 0 <= mass < total and resolves to an index
\* < size; and the rows a sample returns are currently stored transitions, none of
\* them evicted or unpopulated.
C12_SampleResolvesStoredSlots ==
    (kind = "prioritized" /\ size >= 1) =>
        \A p_total \in {Reduce(st_sum, 0, size - 1)} :
            /\ p_total > 0
            /\ p_total = ReduceAll(st_sum)
            /\ \A batch_size \in BatchSizes : \A b \in {ClampBatch(batch_size, size)} :
                  \A i \in 0..(b - 1), u \in Uniform01 :
                     \A mass \in {Mass(p_total, b, i, u)} :
                        /\ mass[2] > 0 /\ mass[1] >= 0
                        /\ FracLt(mass, Frac(p_total, 1))
                        /\ FindPrefixsumIdx(st_sum, mass, 1) < size
            /\ IsCall("sample") =>
                  /\ outcome = "ok" <=> op[2] >= 1
                  /\ outcome = "ok" =>
                        \A k \in DOMAIN returned :
                           /\ returned[k][3] = indices[k]
                           /\ 0 <= indices[k] /\ indices[k] < size
                           /\ returned[k][1] = transitions[indices[k] + 1]
                           /\ returned[k][1] > n_adds - size
                           /\ returned[k][1] <= n_adds

\* Capacity 2 after the inserts 1, 2, 3: slot 0 holds transition 3, and a sample
\* returned it from index 0.
C12_Witness ==
    /\ kind = "prioritized"
    /\ max_size = 2
    /\ n_adds = 3
    /\ IsCall("sample")
    /\ outcome = "ok"
    /\ \E k \in DOMAIN returned : returned[k][3] = 0 /\ returned[k][1] = 3

LeafChanges(i) ==
    \/ GetItem(st_sum', i) # GetItem(st_sum, i)
    \/ GetItem(st_min', i) # GetItem(st_min, i)

\* An update_priorities step that hands back the indices of the sample result held.
RoundTrip ==
    /\ kind = "prioritized"
    /\ indices # <<>>
    /\ op'[1] = "update_priorities"
    /\ op'[2] = indices

\* C14: an update_priorities call that round-trips the indices of a sample changes
\* no leaf of a transition inserted after that sample: where the slot of a returned
\* index has since been overwritten by an insert, the new transition's leaves keep
\* their seed.
C14_UpdateSparesLaterInserts ==
    [][RoundTrip =>
          \A k \in DOMAIN indices :
             transitions[indices[k] + 1] # returned[k][1] => ~LeafChanges(indices[k])]_vars

\* C14 as amended: the leaves of a slot keep their value, from the seed that
\* add_transition writes on, until an update_priorities call names the slot's index
\* or an add_transition overwrites the slot; sample and update_beta change no leaf.
C14_LeafKeptUntilNamed ==
    [][kind = "prioritized" =>
          \A i \in Leaves :
             LeafChanges(i) =>
                \/ op'[1] = "add_transition" /\ i = current_idx
                \/ op'[1] = "update_priorities" /\ \E k \in DOMAIN op'[2] : op'[2][k] = i]_vars

\* Capacity 1 after two inserts: an update naming index 0 has lowered the leaf of
\* transition 2 to 1, below max_priority = 2.
C14_Witness ==
    /\ kind = "prioritized"
    /\ max_size = 1
    /\ alpha = 1
    /\ transitions = <<2>>
    /\ op = <<"update_priorities", <<0>>, <<1>>>>
    /\ outcome = "ok"
    /\ max_priority = 2
    /\ GetItem(st_sum, 0) = 1 /\ GetItem(st_min, 0) = 1

\* C15: clone_buffer(b, maxsize) with maxsize >= b.max_size returns a uniform buffer
\* whose size equals b.size and whose populated slots hold the transitions of b's
\* populated slots, also when b is only partly filled.
C15_CloneKeepsSizeAndSlots ==
    (IsCall("clone_buffer") /\ op[2] >= max_size) =>
        /\ outcome = "ok"
        /\ clone.kind = "uniform"
        /\ clone.max_size = op[2]
        /\ clone.size = size
        /\ \A i \in 1..size : clone.transitions[i] = transitions[i]

\* clone_buffer reads its source through a deep copy: the source buffer is unchanged.
C15_CloneLeavesSourceUnchanged ==
    [][op'[1] = "clone_buffer" =>
          UNCHANGED <<kind, store, alpha, beta, max_priority, trees>>]_vars
====
